---- MODULE Spec2Model ----
(***************************************************************************)
(* A model of the list-virtualization core:                                *)
(*   - VirtualizationCalculator (src/unnamed/part_003), three pure         *)
(*     functions over JavaScript numbers;                                  *)
(*   - PerformanceMonitor (src/unnamed/part_005), a sampling loop driven   *)
(*     by requestAnimationFrame, with snapshots and render marks;          *)
(*   - the scroll batching of useVirtualization (src/unnamed/part_006).    *)
(*                                                                         *)
(* CalcSpec makes one call of the calculator; Spec runs the monitor's      *)
(* sessions and sampling in any host; RenderSpec runs every operation of   *)
(* the monitor in a host with one observer and no container; FairSpec      *)
(* runs sessions in a host whose frames never end; ScrollSpec runs the     *)
(* scroll handler of a mounted list.                                       *)
(*                                                                         *)
(* A JavaScript number is a record: a finite value (modelled by an         *)
(* integer), NaN, +Infinity or -Infinity.  sanitizeNumeric turns every     *)
(* number into a finite one, so the arithmetic after it is on integers.    *)
(***************************************************************************)
EXTENDS Integers, Sequences, FiniteSets, TLC

VARIABLES
    call,            \* the calculator's last call: operation, arguments, result
    \* the fields of a PerformanceMonitor
    metrics, callback, rafId, observer, frameTimestamps, lastFrameTime,
    containerElement, isMonitoring,
    \* the host: clock, animation frame callbacks, the DOM, the platform
    now,             \* performance.now() and the timestamp of the current frame
    frameCallbacks,  \* handles requested for the next frame, in request order
    running,         \* handles of the current frame not yet run, in order
    pc,              \* "idle", or "callback" while the observer runs inside trackFrame
    descendants,     \* number of elements below the container element
    hasPerformanceObserver,
    marks,           \* the labels whose start mark is on the performance timeline
    pendingEntry,    \* the duration of the last 'render' measure queued for the
                     \* PerformanceObserver and not yet delivered, -1 if none
    \* what an observer of the monitor sees
    consoleWarn,     \* the diagnostic the last operation emitted, "" if none
    lastOp,          \* the last operation and its arguments
    calls,           \* per observer, the number of times it was invoked
    countAtStop,     \* per observer, calls at the return of the stopMonitoring
                     \* that ended its session, -1 while none has or during a session
    held,            \* the snapshot a caller or the observer received last
    sessionFrames,   \* the timestamps of the frames the current session sampled
    \* a component that uses useVirtualization
    scrollTopState,  \* the state scrollTop, which setScrollTop writes
    rafIdRef,        \* rafIdRef.current
    scrollFrames,    \* the frame callbacks onScroll requested and the host has
                     \* neither run nor cancelled, in request order
    mounted,         \* the component is mounted
    \* what an observer of the component sees
    scrollEvents,    \* the number of scroll events handled
    newestScrollTop, \* the scrollTop of the last scroll event
    cancelledFrames, \* the handles cancelAnimationFrame was called with
    hookOp           \* the last step of the component and the handle it used

calcVars == <<call>>

monitorFields == <<metrics, callback, rafId, observer, frameTimestamps,
                   lastFrameTime, containerElement, isMonitoring>>

hostVars == <<now, frameCallbacks, running, pc, descendants, hasPerformanceObserver,
              marks, pendingEntry>>

observedVars == <<consoleWarn, lastOp, calls, countAtStop, held, sessionFrames>>

hookVars == <<scrollTopState, rafIdRef, scrollFrames, mounted, scrollEvents,
              newestScrollTop, cancelledFrames, hookOp>>

vars == <<call, metrics, callback, rafId, observer, frameTimestamps, lastFrameTime,
          containerElement, isMonitoring, now, frameCallbacks, running, pc,
          descendants, hasPerformanceObserver, marks, pendingEntry, consoleWarn,
          lastOp, calls, countAtStop, held, sessionFrames, scrollTopState,
          rafIdRef, scrollFrames, mounted, scrollEvents, newestScrollTop,
          cancelledFrames, hookOp>>

----------------------------------------------------------------------------
(* JavaScript numbers *)

Num(n) == [kind |-> "finite", val |-> n]
NaN == [kind |-> "NaN", val |-> 0]
PosInfinity == [kind |-> "Infinity", val |-> 1]
NegInfinity == [kind |-> "Infinity", val |-> -1]

\* Number.isFinite
isFinite(value) == value.kind = "finite"

\* an omitted optional parameter
undefined == <<>>

Max(a, b) == IF a >= b THEN a ELSE b
Min(a, b) == IF a <= b THEN a ELSE b

----------------------------------------------------------------------------
(* DEFAULTS *)

MIN_ITEM_HEIGHT == 1
DEFAULT_ITEM_HEIGHT == 50
DEFAULT_OVERSCAN == 3
MAX_REASONABLE_VALUE == 1000000

----------------------------------------------------------------------------
(* Bounds of the inputs *)

\* every argument ranges over -1 .. MaxSmall besides its named test points
MaxSmall == 3
\* a factor above MaxFactor is multiplied only with a factor of at most
\* MaxFactor, which keeps every product within the model checker's integers
MaxFactor == 2000

SmallValues == {Num(n) : n \in -1 .. MaxSmall}
NonFinite == {NaN, PosInfinity, NegInfinity}

ScrollTops == SmallValues \cup NonFinite
                \cup {Num(n) : n \in {-100, 49, 500, 1000, 49400, 1000050}}
ContainerHeights == {Num(n) : n \in {-1, 0, 75, 600, 1000001}} \cup NonFinite
ItemCounts == SmallValues \cup NonFinite
                \cup {Num(n) : n \in {5, 1000, 1000000, 1000001}}
ItemHeights == {Num(n) : n \in {-50, 0, 1, 2, 50, 1000000, 1000001}}
                \cup NonFinite
Overscans == SmallValues \cup NonFinite
                \cup {Num(n) : n \in {10, 1000001}}
Indices == SmallValues \cup NonFinite
                \cup {Num(n) : n \in {10, MaxFactor, 1000001}}

Large(value) == isFinite(value) /\ value.val > MaxFactor
Multipliable(a, b) == ~(Large(a) /\ Large(b))

----------------------------------------------------------------------------
(* VirtualizationCalculator *)

\* a plausible slip: a value above the maximum falls back to the default
sanitizeNumericDefaultAboveMax(value, defaultValue, max) ==
    IF ~isFinite(value) THEN defaultValue
    ELSE IF value.val < 0 /\ defaultValue >= 0 THEN defaultValue
    ELSE IF max # undefined /\ value.val > max[1] THEN defaultValue
    ELSE value.val

\* a plausible slip: a negative value is passed through
sanitizeNumericKeepsNegative(value, defaultValue, max) ==
    IF ~isFinite(value) THEN defaultValue
    ELSE IF max # undefined /\ value.val > max[1] THEN max[1]
    ELSE value.val

\* a plausible slip: the maximum is not applied
sanitizeNumericWithoutMax(value, defaultValue, max) ==
    IF ~isFinite(value) THEN defaultValue
    ELSE IF value.val < 0 /\ defaultValue >= 0 THEN defaultValue
    ELSE value.val

sanitizeNumeric(value, defaultValue, max) ==
    IF ~isFinite(value) THEN defaultValue
    ELSE IF value.val < 0 /\ defaultValue >= 0 THEN defaultValue
    ELSE IF max # undefined /\ value.val > max[1] THEN max[1]
    ELSE value.val

\* a plausible slip: the empty-list case is not handled first
calculateVisibleRangeNoEmptyCase(scrollTop, containerHeight, itemCount, itemHeight, overscan) ==
    LET safeScrollTop == sanitizeNumeric(scrollTop, 0, undefined)
        safeContainerHeight == sanitizeNumeric(containerHeight, 0, <<MAX_REASONABLE_VALUE>>)
        safeItemCount == sanitizeNumeric(itemCount, 0, <<MAX_REASONABLE_VALUE>>)
        safeItemHeight == sanitizeNumeric(itemHeight, DEFAULT_ITEM_HEIGHT, <<MAX_REASONABLE_VALUE>>)
        safeOverscan == sanitizeNumeric(overscan, DEFAULT_OVERSCAN, <<MAX_REASONABLE_VALUE>>)
        effectiveItemHeight == Max(safeItemHeight, MIN_ITEM_HEIGHT)
        firstVisibleIndex == safeScrollTop \div effectiveItemHeight
        lastVisibleIndex == (safeScrollTop + safeContainerHeight) \div effectiveItemHeight
        startWithOverscan == firstVisibleIndex - safeOverscan
        endWithOverscan == lastVisibleIndex + safeOverscan
    IN  [start |-> Max(0, startWithOverscan),
         end |-> Min(safeItemCount - 1, endWithOverscan)]

\* a plausible slip: the last visible index is taken one too low (the
\* example in the method's own documentation gives end 24 for 25)
calculateVisibleRangeLastOneLow(scrollTop, containerHeight, itemCount, itemHeight, overscan) ==
    LET safeScrollTop == sanitizeNumeric(scrollTop, 0, undefined)
        safeContainerHeight == sanitizeNumeric(containerHeight, 0, <<MAX_REASONABLE_VALUE>>)
        safeItemCount == sanitizeNumeric(itemCount, 0, <<MAX_REASONABLE_VALUE>>)
        safeItemHeight == sanitizeNumeric(itemHeight, DEFAULT_ITEM_HEIGHT, <<MAX_REASONABLE_VALUE>>)
        safeOverscan == sanitizeNumeric(overscan, DEFAULT_OVERSCAN, <<MAX_REASONABLE_VALUE>>)
        effectiveItemHeight == Max(safeItemHeight, MIN_ITEM_HEIGHT)
        firstVisibleIndex == safeScrollTop \div effectiveItemHeight
        lastVisibleIndex == ((safeScrollTop + safeContainerHeight) \div effectiveItemHeight) - 1
        startWithOverscan == firstVisibleIndex - safeOverscan
        endWithOverscan == lastVisibleIndex + safeOverscan
    IN  IF safeItemCount = 0
        THEN [start |-> 0, end |-> -1]
        ELSE [start |-> Max(0, startWithOverscan),
              end |-> Min(safeItemCount - 1, endWithOverscan)]

\* a plausible slip: a negative scroll offset (an overscroll bounce) is used
\* as it is
calculateVisibleRangeNegativeScroll(scrollTop, containerHeight, itemCount, itemHeight, overscan) ==
    LET safeScrollTop == IF isFinite(scrollTop) THEN scrollTop.val ELSE 0
        safeContainerHeight == sanitizeNumeric(containerHeight, 0, <<MAX_REASONABLE_VALUE>>)
        safeItemCount == sanitizeNumeric(itemCount, 0, <<MAX_REASONABLE_VALUE>>)
        safeItemHeight == sanitizeNumeric(itemHeight, DEFAULT_ITEM_HEIGHT, <<MAX_REASONABLE_VALUE>>)
        safeOverscan == sanitizeNumeric(overscan, DEFAULT_OVERSCAN, <<MAX_REASONABLE_VALUE>>)
        effectiveItemHeight == Max(safeItemHeight, MIN_ITEM_HEIGHT)
        firstVisibleIndex == safeScrollTop \div effectiveItemHeight
        lastVisibleIndex == (safeScrollTop + safeContainerHeight) \div effectiveItemHeight
        startWithOverscan == firstVisibleIndex - safeOverscan
        endWithOverscan == lastVisibleIndex + safeOverscan
    IN  IF safeItemCount = 0
        THEN [start |-> 0, end |-> -1]
        ELSE [start |-> Max(0, startWithOverscan),
              end |-> Min(safeItemCount - 1, endWithOverscan)]

\* a plausible slip: an invalid overscan is replaced by no overscan
calculateVisibleRangeOverscanDefaultZero(scrollTop, containerHeight, itemCount, itemHeight, overscan) ==
    LET safeScrollTop == sanitizeNumeric(scrollTop, 0, undefined)
        safeContainerHeight == sanitizeNumeric(containerHeight, 0, <<MAX_REASONABLE_VALUE>>)
        safeItemCount == sanitizeNumeric(itemCount, 0, <<MAX_REASONABLE_VALUE>>)
        safeItemHeight == sanitizeNumeric(itemHeight, DEFAULT_ITEM_HEIGHT, <<MAX_REASONABLE_VALUE>>)
        safeOverscan == sanitizeNumeric(overscan, 0, <<MAX_REASONABLE_VALUE>>)
        effectiveItemHeight == Max(safeItemHeight, MIN_ITEM_HEIGHT)
        firstVisibleIndex == safeScrollTop \div effectiveItemHeight
        lastVisibleIndex == (safeScrollTop + safeContainerHeight) \div effectiveItemHeight
        startWithOverscan == firstVisibleIndex - safeOverscan
        endWithOverscan == lastVisibleIndex + safeOverscan
    IN  IF safeItemCount = 0
        THEN [start |-> 0, end |-> -1]
        ELSE [start |-> Max(0, startWithOverscan),
              end |-> Min(safeItemCount - 1, endWithOverscan)]

\* a plausible slip: the last visible index is taken one too high
calculateVisibleRangeLastOneHigh(scrollTop, containerHeight, itemCount, itemHeight, overscan) ==
    LET safeScrollTop == sanitizeNumeric(scrollTop, 0, undefined)
        safeContainerHeight == sanitizeNumeric(containerHeight, 0, <<MAX_REASONABLE_VALUE>>)
        safeItemCount == sanitizeNumeric(itemCount, 0, <<MAX_REASONABLE_VALUE>>)
        safeItemHeight == sanitizeNumeric(itemHeight, DEFAULT_ITEM_HEIGHT, <<MAX_REASONABLE_VALUE>>)
        safeOverscan == sanitizeNumeric(overscan, DEFAULT_OVERSCAN, <<MAX_REASONABLE_VALUE>>)
        effectiveItemHeight == Max(safeItemHeight, MIN_ITEM_HEIGHT)
        firstVisibleIndex == safeScrollTop \div effectiveItemHeight
        lastVisibleIndex == ((safeScrollTop + safeContainerHeight) \div effectiveItemHeight) + 1
        startWithOverscan == firstVisibleIndex - safeOverscan
        endWithOverscan == lastVisibleIndex + safeOverscan
    IN  IF safeItemCount = 0
        THEN [start |-> 0, end |-> -1]
        ELSE [start |-> Max(0, startWithOverscan),
              end |-> Min(safeItemCount - 1, endWithOverscan)]

\* a plausible slip: the first visible index is rounded up, which drops a
\* partly visible first row
calculateVisibleRangeFirstRoundedUp(scrollTop, containerHeight, itemCount, itemHeight, overscan) ==
    LET safeScrollTop == sanitizeNumeric(scrollTop, 0, undefined)
        safeContainerHeight == sanitizeNumeric(containerHeight, 0, <<MAX_REASONABLE_VALUE>>)
        safeItemCount == sanitizeNumeric(itemCount, 0, <<MAX_REASONABLE_VALUE>>)
        safeItemHeight == sanitizeNumeric(itemHeight, DEFAULT_ITEM_HEIGHT, <<MAX_REASONABLE_VALUE>>)
        safeOverscan == sanitizeNumeric(overscan, DEFAULT_OVERSCAN, <<MAX_REASONABLE_VALUE>>)
        effectiveItemHeight == Max(safeItemHeight, MIN_ITEM_HEIGHT)
        firstVisibleIndex == (safeScrollTop + effectiveItemHeight - 1) \div effectiveItemHeight
        lastVisibleIndex == (safeScrollTop + safeContainerHeight) \div effectiveItemHeight
        startWithOverscan == firstVisibleIndex - safeOverscan
        endWithOverscan == lastVisibleIndex + safeOverscan
    IN  IF safeItemCount = 0
        THEN [start |-> 0, end |-> -1]
        ELSE [start |-> Max(0, startWithOverscan),
              end |-> Min(safeItemCount - 1, endWithOverscan)]

calculateVisibleRange(scrollTop, containerHeight, itemCount, itemHeight, overscan) ==
    LET safeScrollTop == sanitizeNumeric(scrollTop, 0, undefined)
        safeContainerHeight == sanitizeNumeric(containerHeight, 0, <<MAX_REASONABLE_VALUE>>)
        safeItemCount == sanitizeNumeric(itemCount, 0, <<MAX_REASONABLE_VALUE>>)
        safeItemHeight == sanitizeNumeric(itemHeight, DEFAULT_ITEM_HEIGHT, <<MAX_REASONABLE_VALUE>>)
        safeOverscan == sanitizeNumeric(overscan, DEFAULT_OVERSCAN, <<MAX_REASONABLE_VALUE>>)
        effectiveItemHeight == Max(safeItemHeight, MIN_ITEM_HEIGHT)
        \* Math.floor of a quotient of a non-negative by a positive number
        firstVisibleIndex == safeScrollTop \div effectiveItemHeight
        lastVisibleIndex == (safeScrollTop + safeContainerHeight) \div effectiveItemHeight
        startWithOverscan == firstVisibleIndex - safeOverscan
        endWithOverscan == lastVisibleIndex + safeOverscan
    IN  IF safeItemCount = 0
        THEN [start |-> 0, end |-> -1]
        ELSE [start |-> Max(0, startWithOverscan),
              end |-> Min(safeItemCount - 1, endWithOverscan)]

\* a plausible slip: the floor of the height is the default height, not the
\* minimum height
calculateItemPositionFloorDefault(index, itemHeight) ==
    LET safeIndex == Max(0, sanitizeNumeric(index, 0, undefined))
        safeItemHeight == sanitizeNumeric(itemHeight, DEFAULT_ITEM_HEIGHT, <<MAX_REASONABLE_VALUE>>)
        effectiveItemHeight == Max(safeItemHeight, DEFAULT_ITEM_HEIGHT)
    IN  [top |-> safeIndex * effectiveItemHeight, height |-> effectiveItemHeight]

calculateItemPosition(index, itemHeight) ==
    LET safeIndex == Max(0, sanitizeNumeric(index, 0, undefined))
        safeItemHeight == sanitizeNumeric(itemHeight, DEFAULT_ITEM_HEIGHT, <<MAX_REASONABLE_VALUE>>)
        effectiveItemHeight == Max(safeItemHeight, MIN_ITEM_HEIGHT)
        top == safeIndex * effectiveItemHeight
    IN  [top |-> top, height |-> effectiveItemHeight]

\* a plausible slip: the floor of the height is the default height, not the
\* minimum height
calculateTotalHeightFloorDefault(itemCount, itemHeight) ==
    LET safeItemCount == sanitizeNumeric(itemCount, 0, <<MAX_REASONABLE_VALUE>>)
        safeItemHeight == sanitizeNumeric(itemHeight, DEFAULT_ITEM_HEIGHT, <<MAX_REASONABLE_VALUE>>)
        effectiveItemHeight == Max(safeItemHeight, DEFAULT_ITEM_HEIGHT)
    IN  safeItemCount * effectiveItemHeight

calculateTotalHeight(itemCount, itemHeight) ==
    LET safeItemCount == sanitizeNumeric(itemCount, 0, <<MAX_REASONABLE_VALUE>>)
        safeItemHeight == sanitizeNumeric(itemHeight, DEFAULT_ITEM_HEIGHT, <<MAX_REASONABLE_VALUE>>)
        effectiveItemHeight == Max(safeItemHeight, MIN_ITEM_HEIGHT)
    IN  safeItemCount * effectiveItemHeight

----------------------------------------------------------------------------
(* PerformanceMonitor *)

null == "null"
\* rafId === null; the handles requestAnimationFrame returns are positive
noHandle == 0

INITIAL_METRICS == [fps |-> 0, memoryUsage |-> 0, domNodes |-> 0, renderTime |-> 0]
\* timestamp - 1000: the length of the FPS window in milliseconds
FPS_WINDOW == 1000
ALREADY_MONITORING == "PerformanceMonitor: Already monitoring"
OBSERVER_UNAVAILABLE == "PerformanceObserver not available in this browser"

(* Bounds of the monitor's environment *)

\* frames are FrameGap or 2 * FrameGap milliseconds apart
FrameGap == 500
\* the clock stops at MaxTime
MaxTime == 2000
\* the container element has at most MaxDescendants elements below it
MaxDescendants == 1

FrameGaps == {FrameGap, 2 * FrameGap}
Observers == {"observerA", "observerB"}
Containers == {"container"}
\* reading performance.memory gives nothing (the facility is missing, has no
\* usedJSHeapSize, or throws) or the heap size, here in whole megabytes
noMemory == -1
MemoryReadings == {noMemory, 12}

AtRest == pc = "idle" /\ running = <<>>
\* an operation of the monitor is called by a task between two frames, or
\* by the observer while it runs inside trackFrame
Callable == AtRest \/ pc = "callback"

Handles == {rafId} \cup {frameCallbacks[i] : i \in 1 .. Len(frameCallbacks)}
               \cup {running[i] : i \in 1 .. Len(running)}
\* requestAnimationFrame returns a handle no live reference holds
newHandle == CHOOSE h \in 1 .. (Cardinality(Handles) + 1) : h \notin Handles

\* cancelAnimationFrame(handle)
cancelled(callbacks, handle) == SelectSeq(callbacks, LAMBDA h : h # handle)

\* initializePerformanceObserver: the observer field after it, and its warning
initializedObserver == IF hasPerformanceObserver THEN "PerformanceObserver" ELSE null
initializeWarning == IF hasPerformanceObserver THEN "" ELSE OBSERVER_UNAVAILABLE

\* a plausible slip: no guard against a session that is already running
startMonitoringUnguarded(cb, element) ==
    /\ callback' = cb
    /\ containerElement' = element
    /\ isMonitoring' = TRUE
    /\ frameTimestamps' = <<>>
    /\ lastFrameTime' = now
    /\ observer' = initializedObserver
    /\ consoleWarn' = initializeWarning
    /\ rafId' = newHandle
    /\ frameCallbacks' = Append(frameCallbacks, newHandle)
    /\ UNCHANGED <<metrics, running>>

\* startMonitoring(callback, containerElement?), with initializePerformanceObserver
\* and startFPSTracking, which it calls
startMonitoring(cb, element) ==
    IF isMonitoring
    THEN /\ consoleWarn' = ALREADY_MONITORING
         /\ UNCHANGED <<monitorFields, frameCallbacks, running>>
    ELSE /\ callback' = cb
         /\ containerElement' = element
         /\ isMonitoring' = TRUE
         /\ frameTimestamps' = <<>>
         /\ lastFrameTime' = now
         /\ observer' = initializedObserver
         /\ consoleWarn' = initializeWarning
         /\ rafId' = newHandle
         /\ frameCallbacks' = Append(frameCallbacks, newHandle)
         /\ UNCHANGED <<metrics, running>>

\* a plausible slip: stop only cancels the pending frame and leaves the
\* session's state as it is
stopMonitoringCancelOnly ==
    /\ consoleWarn' = ""
    /\ IF ~isMonitoring
       THEN UNCHANGED <<monitorFields, frameCallbacks, running>>
       ELSE /\ frameCallbacks' = cancelled(frameCallbacks, rafId)
            /\ running' = cancelled(running, rafId)
            /\ rafId' = noHandle
            /\ UNCHANGED <<isMonitoring, observer, callback, containerElement,
                           frameTimestamps, metrics, lastFrameTime>>

\* a plausible slip: stop forgets to empty the timestamp window
stopMonitoringKeepsTimestamps ==
    /\ consoleWarn' = ""
    /\ IF ~isMonitoring
       THEN UNCHANGED <<monitorFields, frameCallbacks, running>>
       ELSE /\ isMonitoring' = FALSE
            /\ frameCallbacks' = cancelled(frameCallbacks, rafId)
            /\ running' = cancelled(running, rafId)
            /\ rafId' = noHandle
            /\ observer' = null
            /\ callback' = null
            /\ containerElement' = null
            /\ UNCHANGED <<metrics, lastFrameTime, frameTimestamps>>

\* a plausible slip: no early return when no session is running
stopMonitoringUnguarded ==
    /\ consoleWarn' = ""
    /\ isMonitoring' = FALSE
    /\ frameCallbacks' = cancelled(frameCallbacks, rafId)
    /\ running' = cancelled(running, rafId)
    /\ rafId' = noHandle
    /\ observer' = null
    /\ callback' = null
    /\ containerElement' = null
    /\ frameTimestamps' = <<>>
    /\ UNCHANGED <<metrics, lastFrameTime>>

\* a plausible slip: stopping resets the stored snapshot
stopMonitoringResetsMetrics ==
    /\ consoleWarn' = ""
    /\ IF ~isMonitoring
       THEN UNCHANGED <<monitorFields, frameCallbacks, running>>
       ELSE /\ isMonitoring' = FALSE
            /\ frameCallbacks' = cancelled(frameCallbacks, rafId)
            /\ running' = cancelled(running, rafId)
            /\ rafId' = noHandle
            /\ observer' = null
            /\ callback' = null
            /\ containerElement' = null
            /\ frameTimestamps' = <<>>
            /\ metrics' = INITIAL_METRICS
            /\ UNCHANGED lastFrameTime

stopMonitoring ==
    /\ consoleWarn' = ""
    /\ IF ~isMonitoring
       THEN UNCHANGED <<monitorFields, frameCallbacks, running>>
       ELSE /\ isMonitoring' = FALSE
            /\ frameCallbacks' = cancelled(frameCallbacks, rafId)
            /\ running' = cancelled(running, rafId)
            /\ rafId' = noHandle
            /\ observer' = null
            /\ callback' = null
            /\ containerElement' = null
            /\ frameTimestamps' = <<>>
            /\ UNCHANGED <<metrics, lastFrameTime>>

\* a plausible slip: the reading is used without checking that there is one
getMemoryUsageUnchecked(reading) == reading

\* getMemoryUsage: 0 when performance.memory gives nothing
getMemoryUsage(reading) == IF reading = noMemory THEN 0 ELSE reading

\* a plausible slip: the container itself is not counted
getDOMNodeCountDescendantsOnly(counted) ==
    IF containerElement = null THEN 0
    ELSE IF counted THEN descendants ELSE 0

\* getDOMNodeCount; a querySelectorAll that throws gives 0
getDOMNodeCount(counted) ==
    IF containerElement = null THEN 0
    ELSE IF counted THEN descendants + 1 ELSE 0

\* a plausible slip: the pass rebuilds the record from the initial one
trackFrameSampleFromInitial(timestamp, memoryUsage, counted) ==
    LET pushed == Append(frameTimestamps, timestamp)
        oneSecondAgo == timestamp - FPS_WINDOW
        kept == SelectSeq(pushed, LAMBDA t : t > oneSecondAgo)
    IN  /\ frameTimestamps' = kept
        /\ metrics' = [INITIAL_METRICS EXCEPT !.fps = Len(kept),
                                              !.memoryUsage = memoryUsage,
                                              !.domNodes = getDOMNodeCount(counted)]

\* trackFrame(timestamp) up to and including the call of the observer
trackFrameSample(timestamp, memoryUsage, counted) ==
    LET pushed == Append(frameTimestamps, timestamp)
        oneSecondAgo == timestamp - FPS_WINDOW
        kept == SelectSeq(pushed, LAMBDA t : t > oneSecondAgo)
    IN  /\ frameTimestamps' = kept
        /\ metrics' = [metrics EXCEPT !.fps = Len(kept),
                                      !.memoryUsage = memoryUsage,
                                      !.domNodes = getDOMNodeCount(counted)]

\* a snapshot handed out: its field values, and whether it is the very
\* object the monitor keeps in this.metrics
\* this.callback({ ...this.metrics })
deliveredMetrics(current) == [value |-> current, shared |-> FALSE]

\* a plausible slip: the stored object itself is returned
getMetricsSameObject == [value |-> metrics, shared |-> TRUE]

\* a plausible slip: a monitor that is not running reports the initial record
getMetricsInitialWhileIdle ==
    [value |-> IF isMonitoring THEN metrics ELSE INITIAL_METRICS, shared |-> FALSE]

\* getMetrics(): { ...this.metrics }
getMetrics == [value |-> metrics, shared |-> FALSE]

\* no measure entry is queued for the PerformanceObserver; no measure made
noEntry == -1

\* the labels of markRenderStart / markRenderEnd; entry.name.includes('render')
\* holds of the first only
Labels == {"render", "test"}
namesRender(label) == label = "render"
\* lastMeasure.duration: what the platform's clock measured between two marks
Durations == {0, 7}

\* markRenderStart(label); timing is FALSE when performance.mark throws
markRenderStart(label, timing) ==
    /\ marks' = IF timing THEN marks \cup {label} ELSE marks
    /\ UNCHANGED <<monitorFields, pendingEntry>>

\* performance.measure(label, label-start, label-end) succeeds
measurable(label, timing) == timing /\ label \in marks

\* a plausible slip: a failed measurement resets renderTime
markRenderEndResetsOnFailure(label, timing, duration) ==
    /\ IF measurable(label, timing)
       THEN /\ metrics' = [metrics EXCEPT !.renderTime = duration]
            /\ marks' = marks \ {label}
            /\ pendingEntry' = IF observer # null /\ namesRender(label)
                               THEN duration ELSE pendingEntry
       ELSE /\ metrics' = [metrics EXCEPT !.renderTime = 0]
            /\ UNCHANGED <<marks, pendingEntry>>
    /\ UNCHANGED <<callback, rafId, observer, frameTimestamps, lastFrameTime,
                   containerElement, isMonitoring>>

\* markRenderEnd(label); the measure it makes is also queued for the
\* PerformanceObserver of the session when its name includes 'render'
markRenderEnd(label, timing, duration) ==
    /\ IF measurable(label, timing)
       THEN /\ metrics' = [metrics EXCEPT !.renderTime = duration]
            /\ marks' = marks \ {label}
            /\ pendingEntry' = IF observer # null /\ namesRender(label)
                               THEN duration ELSE pendingEntry
       ELSE UNCHANGED <<metrics, marks, pendingEntry>>
    /\ UNCHANGED <<callback, rafId, observer, frameTimestamps, lastFrameTime,
                   containerElement, isMonitoring>>

\* the callback of the PerformanceObserver: the last matching entry wins
performanceObserverCallback ==
    /\ metrics' = [metrics EXCEPT !.renderTime = pendingEntry]
    /\ pendingEntry' = noEntry
    /\ UNCHANGED <<callback, rafId, observer, frameTimestamps, lastFrameTime,
                   containerElement, isMonitoring, marks>>

\* what a holder of a snapshot writes into it
Tampered == [fps |-> -1, memoryUsage |-> -1, domNodes |-> -1, renderTime |-> -1]

\* a plausible slip: trackFrame does not request another frame
scheduleNextFrameNever ==
    UNCHANGED <<rafId, frameCallbacks>>

\* trackFrame's last statement: this.rafId = requestAnimationFrame(trackFrame)
scheduleNextFrame ==
    /\ rafId' = newHandle
    /\ frameCallbacks' = Append(frameCallbacks, newHandle)

----------------------------------------------------------------------------
(* useVirtualization: scroll batching *)

\* the component handles at most MaxScrolls scroll events
MaxScrolls == 4
\* event.currentTarget.scrollTop
ScrollOffsets == {0, 100, 250}

\* requestAnimationFrame returns a handle it has not returned before
nextScrollHandle == scrollEvents + 1
\* () => { setScrollTop(newScrollTop); rafIdRef.current = null; }
scrollUpdate(handle, newScrollTop) == [id |-> handle, newScrollTop |-> newScrollTop]

\* a plausible slip: the pending frame is not cancelled
onScrollWithoutCancel(newScrollTop) ==
    /\ cancelledFrames' = cancelledFrames
    /\ rafIdRef' = nextScrollHandle
    /\ scrollFrames' = Append(scrollFrames, scrollUpdate(nextScrollHandle, newScrollTop))

\* onScroll(event), newScrollTop being event.currentTarget.scrollTop
onScroll(newScrollTop) ==
    LET pending == IF rafIdRef # noHandle
                   THEN SelectSeq(scrollFrames, LAMBDA f : f.id # rafIdRef)
                   ELSE scrollFrames
    IN  /\ cancelledFrames' = IF rafIdRef # noHandle
                              THEN cancelledFrames \cup {rafIdRef}
                              ELSE cancelledFrames
        /\ rafIdRef' = nextScrollHandle
        /\ scrollFrames' = Append(pending, scrollUpdate(nextScrollHandle, newScrollTop))

\* the cleanup of the effect, which React runs when the component unmounts
unmountCleanup ==
    IF rafIdRef # noHandle
    THEN /\ scrollFrames' = SelectSeq(scrollFrames, LAMBDA f : f.id # rafIdRef)
         /\ cancelledFrames' = cancelledFrames \cup {rafIdRef}
         /\ rafIdRef' = noHandle
    ELSE UNCHANGED <<scrollFrames, cancelledFrames, rafIdRef>>

HookOp(name, handle) == [name |-> name, id |-> handle]

\* useState(0), useRef(null), and a component that was just mounted
HookInit ==
    /\ scrollTopState = 0
    /\ rafIdRef = noHandle
    /\ scrollFrames = <<>>
    /\ mounted = TRUE
    /\ scrollEvents = 0
    /\ newestScrollTop = 0
    /\ cancelledFrames = {}
    /\ hookOp = HookOp("mount", noHandle)

\* the list is scrolled
OnScroll ==
    \E newScrollTop \in ScrollOffsets :
        /\ mounted
        /\ scrollEvents < MaxScrolls
        /\ onScroll(newScrollTop)
        /\ scrollEvents' = scrollEvents + 1
        /\ newestScrollTop' = newScrollTop
        /\ hookOp' = HookOp("onScroll", nextScrollHandle)
        /\ UNCHANGED <<scrollTopState, mounted>>
        /\ UNCHANGED <<call, monitorFields, hostVars, observedVars>>

\* the host runs, in a frame, the oldest callback requested by onScroll
ScrollFrame ==
    /\ scrollFrames # <<>>
    /\ scrollTopState' = Head(scrollFrames).newScrollTop
    /\ rafIdRef' = noHandle
    /\ scrollFrames' = Tail(scrollFrames)
    /\ hookOp' = HookOp("setScrollTop", Head(scrollFrames).id)
    /\ UNCHANGED <<mounted, scrollEvents, newestScrollTop, cancelledFrames>>
    /\ UNCHANGED <<call, monitorFields, hostVars, observedVars>>

\* the component unmounts
Unmount ==
    /\ mounted
    /\ mounted' = FALSE
    /\ unmountCleanup
    /\ hookOp' = HookOp("unmount", rafIdRef)
    /\ UNCHANGED <<scrollTopState, scrollEvents, newestScrollTop>>
    /\ UNCHANGED <<call, monitorFields, hostVars, observedVars>>

----------------------------------------------------------------------------
(* The monitor's operations as steps *)

Op(name, cb, element) == [name |-> name, callback |-> cb, element |-> element]

\* a sampling pass of trackFrame; counted is FALSE when querySelectorAll
\* threw, reading is what performance.memory gave
Sampled(counted, reading) ==
    [name |-> "trackFrame", counted |-> counted, reading |-> reading]

\* a call of markRenderStart or markRenderEnd; measured is the duration the
\* call stored, noEntry if it stored none
MarkOp(name, label, timing, measured) ==
    [name |-> name, label |-> label, timing |-> timing, measured |-> measured]

\* querySelectorAll is called, and can throw, only when there is a container
Countings == IF containerElement = null THEN {TRUE} ELSE BOOLEAN

Pending(op, args) == [op |-> op, args |-> args, done |-> FALSE, result |-> <<>>]

MonitorInit ==
    /\ metrics = INITIAL_METRICS
    /\ callback = null
    /\ rafId = noHandle
    /\ observer = null
    /\ frameTimestamps = <<>>
    /\ lastFrameTime = 0
    /\ containerElement = null
    /\ isMonitoring = FALSE
    /\ now = 0
    /\ frameCallbacks = <<>>
    /\ running = <<>>
    /\ pc = "idle"
    /\ descendants = 0
    /\ consoleWarn = ""
    /\ lastOp = Op("new", null, null)
    /\ calls = [o \in Observers |-> 0]
    /\ countAtStop = [o \in Observers |-> -1]
    /\ marks = {}
    /\ pendingEntry = noEntry
    /\ held = undefined
    /\ sessionFrames = {}

\* startMonitoring called with an observer and an element of the given sets
StartMonitoringWith(observers, elements) ==
    \E cb \in observers, element \in elements :
        /\ Callable
        /\ startMonitoring(cb, element)
        /\ lastOp' = Op("startMonitoring", cb, element)
        /\ countAtStop' = IF isMonitoring THEN countAtStop
                          ELSE [countAtStop EXCEPT ![cb] = -1]
        /\ sessionFrames' = IF isMonitoring THEN sessionFrames ELSE {}
        \* a new PerformanceObserver has no entries queued
        /\ pendingEntry' = IF isMonitoring THEN pendingEntry ELSE noEntry
        /\ UNCHANGED <<hookVars, call, now, pc, descendants, hasPerformanceObserver, calls,
                       marks, held>>

StopMonitoring ==
    /\ Callable
    /\ stopMonitoring
    /\ lastOp' = Op("stopMonitoring", null, null)
    /\ countAtStop' = IF isMonitoring
                      THEN [countAtStop EXCEPT ![callback] = calls[callback]]
                      ELSE countAtStop
    /\ sessionFrames' = IF isMonitoring THEN {} ELSE sessionFrames
    \* observer.disconnect() drops the entries queued for it
    /\ pendingEntry' = IF isMonitoring THEN noEntry ELSE pendingEntry
    /\ UNCHANGED <<hookVars, call, now, pc, descendants, hasPerformanceObserver, calls,
                   marks, held>>

StartMonitoring == StartMonitoringWith(Observers, Containers \cup {null})

\* the host runs the next animation frame callback of the current frame;
\* getMemoryUsage reads one of the given values
TrackFrameWith(readings) ==
    /\ pc = "idle" /\ running # <<>>
    /\ consoleWarn' = ""
    /\ IF ~isMonitoring
       THEN /\ running' = Tail(running)
            /\ lastOp' = Op("trackFrame", null, null)
            /\ UNCHANGED <<monitorFields, frameCallbacks, pc, calls, held,
                           sessionFrames>>
       ELSE \E reading \in readings, counted \in Countings :
            /\ trackFrameSample(now, getMemoryUsage(reading), counted)
            /\ lastOp' = Sampled(counted, reading)
            /\ sessionFrames' = sessionFrames \cup {now}
            /\ running' = Tail(running)
            /\ IF callback # null
               THEN /\ calls' = [calls EXCEPT ![callback] = @ + 1]
                    /\ held' = deliveredMetrics(metrics')
                    /\ pc' = "callback"
                    /\ UNCHANGED <<rafId, frameCallbacks>>
               ELSE /\ scheduleNextFrame
                    /\ UNCHANGED <<calls, pc, held>>
            /\ UNCHANGED <<callback, observer, lastFrameTime, containerElement,
                           isMonitoring>>
    /\ UNCHANGED <<hookVars, call, now, descendants, hasPerformanceObserver, countAtStop,
                   marks, pendingEntry>>

TrackFrame == TrackFrameWith(MemoryReadings)

\* the observer returns and trackFrame requests its next frame
TrackFrameReturn ==
    /\ pc = "callback"
    /\ scheduleNextFrame
    /\ pc' = "idle"
    /\ lastOp' = Op("observerReturn", null, null)
    /\ consoleWarn' = ""
    /\ UNCHANGED <<hookVars, call, metrics, callback, observer, frameTimestamps, lastFrameTime,
                   containerElement, isMonitoring, now, running, descendants,
                   hasPerformanceObserver, calls, countAtStop, marks, pendingEntry,
                   held, sessionFrames>>

\* the host begins the next frame
NextFrame ==
    \E gap \in FrameGaps :
        /\ AtRest
        /\ now + gap <= MaxTime
        /\ now' = now + gap
        /\ running' = frameCallbacks
        /\ frameCallbacks' = <<>>
        /\ lastOp' = Op("nextFrame", null, null)
        /\ consoleWarn' = ""
        /\ UNCHANGED <<hookVars, call, monitorFields, pc, descendants, hasPerformanceObserver,
                       calls, countAtStop, marks, pendingEntry, sessionFrames, held>>

\* the page adds or removes an element below the container
ChangeDOM ==
    \E n \in 0 .. MaxDescendants :
        /\ AtRest
        /\ n # descendants
        /\ descendants' = n
        /\ lastOp' = Op("changeDOM", null, null)
        /\ consoleWarn' = ""
        /\ UNCHANGED <<hookVars, call, monitorFields, now, frameCallbacks, running, pc,
                       hasPerformanceObserver, calls, countAtStop, marks,
                       pendingEntry, held, sessionFrames>>

GetMetrics ==
    /\ Callable
    /\ held' = getMetrics
    /\ lastOp' = Op("getMetrics", null, null)
    /\ consoleWarn' = ""
    /\ UNCHANGED <<hookVars, call, monitorFields, hostVars, calls, countAtStop, sessionFrames>>

\* the holder of a snapshot writes into it
MutateSnapshot ==
    /\ Callable
    /\ held # undefined
    /\ held.value # Tampered
    /\ held' = [held EXCEPT !.value = Tampered]
    /\ metrics' = IF held.shared THEN Tampered ELSE metrics
    /\ lastOp' = Op("mutateSnapshot", null, null)
    /\ consoleWarn' = ""
    /\ UNCHANGED <<hookVars, call, callback, rafId, observer, frameTimestamps, lastFrameTime,
                   containerElement, isMonitoring, hostVars, calls, countAtStop,
                   sessionFrames>>

MarkRenderStart ==
    \E label \in Labels, timing \in BOOLEAN :
        /\ Callable
        /\ markRenderStart(label, timing)
        /\ lastOp' = MarkOp("markRenderStart", label, timing, noEntry)
        /\ consoleWarn' = ""
        /\ UNCHANGED <<hookVars, call, now, frameCallbacks, running, pc, descendants,
                       hasPerformanceObserver, calls, countAtStop, held,
                       sessionFrames>>

MarkRenderEnd ==
    \E label \in Labels, timing \in BOOLEAN, duration \in Durations :
        /\ Callable
        /\ markRenderEnd(label, timing, duration)
        /\ lastOp' = MarkOp("markRenderEnd", label, timing,
                            IF measurable(label, timing) THEN duration ELSE noEntry)
        /\ consoleWarn' = ""
        /\ UNCHANGED <<hookVars, call, now, frameCallbacks, running, pc, descendants,
                       hasPerformanceObserver, calls, countAtStop, held,
                       sessionFrames>>

\* the host delivers the queued measure entries to the PerformanceObserver
PerformanceObserverCallback ==
    /\ AtRest
    /\ observer # null
    /\ pendingEntry # noEntry
    /\ performanceObserverCallback
    /\ lastOp' = Op("performanceEntries", null, null)
    /\ consoleWarn' = ""
    /\ UNCHANGED <<hookVars, call, now, frameCallbacks, running, pc, descendants,
                   hasPerformanceObserver, calls, countAtStop, held, sessionFrames>>

Init ==
    /\ MonitorInit
    /\ HookInit
    /\ hasPerformanceObserver \in BOOLEAN
    /\ call = Pending("none", <<>>)

Next ==
    \/ StartMonitoring
    \/ StopMonitoring
    \/ TrackFrame
    \/ TrackFrameReturn
    \/ NextFrame
    \/ ChangeDOM

\* sessions and sampling: any observer, container, DOM and memory reading
Spec == Init /\ [][Next]_vars

\* every operation of the monitor, snapshots and render marks included, in
\* a host with one observer, no container and no performance.memory
StartObserved == StartMonitoringWith({"observerA"}, {null})
SampleFrame == TrackFrameWith({noMemory})

RenderNext ==
    \/ StartObserved
    \/ StopMonitoring
    \/ SampleFrame
    \/ TrackFrameReturn
    \/ NextFrame
    \/ GetMetrics
    \/ MutateSnapshot
    \/ MarkRenderStart
    \/ MarkRenderEnd
    \/ PerformanceObserverCallback

RenderSpec == Init /\ [][RenderNext]_vars

\* A host whose clock never stops.  Time is kept relative to the current
\* frame: when a frame begins, the timestamps the monitor holds move back by
\* the time that passed, and one that left the FPS window stays at its edge
\* (trackFrame drops it at the next pass whatever its age).  The history
\* variables start again with each frame, and sessions are started and
\* stopped between frames.
rebased(t, gap) == Max(t - gap, now - FPS_WINDOW)

FrameTick ==
    \E gap \in FrameGaps :
        /\ AtRest
        /\ frameTimestamps' = [i \in 1 .. Len(frameTimestamps) |->
                                    rebased(frameTimestamps[i], gap)]
        /\ lastFrameTime' = rebased(lastFrameTime, gap)
        /\ running' = frameCallbacks
        /\ frameCallbacks' = <<>>
        /\ lastOp' = Op("nextFrame", null, null)
        /\ consoleWarn' = ""
        /\ calls' = [o \in Observers |-> 0]
        /\ countAtStop' = [o \in Observers |-> -1]
        /\ sessionFrames' = {}
        /\ UNCHANGED <<hookVars, call, metrics, callback, rafId, observer, containerElement,
                       isMonitoring, now, pc, descendants, hasPerformanceObserver,
                       marks, pendingEntry, held>>

StartAtRest == AtRest /\ StartMonitoring
StopAtRest == AtRest /\ StopMonitoring

FairNext ==
    \/ StartAtRest
    \/ StopAtRest
    \/ TrackFrame
    \/ TrackFrameReturn
    \/ FrameTick

\* the host begins frame after frame, runs the callbacks requested for a
\* frame, and the observer returns
FairSpec ==
    /\ Init
    /\ [][FairNext]_vars
    /\ WF_vars(FrameTick)
    /\ WF_vars(TrackFrame)
    /\ WF_vars(TrackFrameReturn)

\* a mounted component whose list is scrolled while frames come
ScrollInit ==
    /\ MonitorInit
    /\ HookInit
    /\ hasPerformanceObserver = TRUE
    /\ call = Pending("none", <<>>)

ScrollNext ==
    \/ OnScroll
    \/ ScrollFrame
    \/ Unmount

ScrollSpec == ScrollInit /\ [][ScrollNext]_vars

----------------------------------------------------------------------------
(* The calculator's callers: a caller holds the arguments of one call (any
   operation, any arguments of the input sets) and then makes the call *)

CalcCaller ==
    \/ \E scrollTop \in ScrollTops, containerHeight \in ContainerHeights,
          itemCount \in ItemCounts, itemHeight \in ItemHeights, overscan \in Overscans :
            call = Pending("calculateVisibleRange",
                           <<scrollTop, containerHeight, itemCount, itemHeight, overscan>>)
    \/ \E index \in Indices, itemHeight \in ItemHeights :
            /\ Multipliable(index, itemHeight)
            /\ call = Pending("calculateItemPosition", <<index, itemHeight>>)
    \/ \E itemCount \in ItemCounts, itemHeight \in ItemHeights :
            /\ Multipliable(itemCount, itemHeight)
            /\ call = Pending("calculateTotalHeight", <<itemCount, itemHeight>>)

CalcInit ==
    /\ CalcCaller
    /\ MonitorInit
    /\ HookInit
    /\ hasPerformanceObserver = TRUE

VisibleRangeCall ==
    /\ call.op = "calculateVisibleRange" /\ ~call.done
    /\ call' = [call EXCEPT !.done = TRUE,
                            !.result = calculateVisibleRange(call.args[1], call.args[2],
                                            call.args[3], call.args[4], call.args[5])]
    /\ UNCHANGED <<monitorFields, hostVars, observedVars, hookVars>>

ItemPositionCall ==
    /\ call.op = "calculateItemPosition" /\ ~call.done
    /\ call' = [call EXCEPT !.done = TRUE,
                            !.result = calculateItemPosition(call.args[1], call.args[2])]
    /\ UNCHANGED <<monitorFields, hostVars, observedVars, hookVars>>

TotalHeightCall ==
    /\ call.op = "calculateTotalHeight" /\ ~call.done
    /\ call' = [call EXCEPT !.done = TRUE,
                            !.result = calculateTotalHeight(call.args[1], call.args[2])]
    /\ UNCHANGED <<monitorFields, hostVars, observedVars, hookVars>>

CalcNext ==
    \/ VisibleRangeCall
    \/ ItemPositionCall
    \/ TotalHeightCall


CalcSpec == CalcInit /\ [][CalcNext]_vars

----------------------------------------------------------------------------
(* Properties of the calculator, checked under CalcSpec *)

VisibleRangeDone == call.op = "calculateVisibleRange" /\ call.done
ItemPositionDone == call.op = "calculateItemPosition" /\ call.done
TotalHeightDone == call.op = "calculateTotalHeight" /\ call.done

Positive(value) == isFinite(value) /\ value.val > 0
NonNegative(value) == isFinite(value) /\ value.val >= 0
EmptyRange == [start |-> 0, end |-> -1]

\* C1: for itemCount > 0 and itemHeight > 0 and any other arguments, the
\* range returned by calculateVisibleRange has start and end in
\* [0, itemCount - 1] and start <= end.
C1_RangeWithinList ==
    (VisibleRangeDone /\ Positive(call.args[3]) /\ Positive(call.args[4])) =>
        LET itemCount == call.args[3].val
            range == call.result
        IN  /\ 0 <= range.start /\ range.start <= itemCount - 1
            /\ 0 <= range.end /\ range.end <= itemCount - 1
            /\ range.start <= range.end

\* C4: for any arguments the returned range has end < start only when the
\* sanitized itemCount is 0, and then end = start - 1; when the sanitized
\* itemCount is above 0, start <= end.
C4_EndBeforeStartOnlyWhenEmpty ==
    VisibleRangeDone =>
        LET safeItemCount == sanitizeNumeric(call.args[3], 0, <<MAX_REASONABLE_VALUE>>)
            range == call.result
        IN  /\ range.end < range.start =>
                    (safeItemCount = 0 /\ range.end = range.start - 1)
            /\ safeItemCount > 0 => range.start <= range.end

\* C5: calculateVisibleRange returns exactly {start: 0, end: -1} when
\* itemCount is 0, whatever the other arguments are (valid or not).
C5_EmptyListGivesEmptyRange ==
    (VisibleRangeDone /\ call.args[3] = Num(0)) => call.result = EmptyRange

C5_Witness ==
    /\ VisibleRangeDone
    /\ call.args = <<Num(49400), NaN, Num(0), NegInfinity, PosInfinity>>
    /\ call.result = EmptyRange

C8_OverscanMonotone ==
    (VisibleRangeDone /\ NonNegative(call.args[5])) =>
        \A o2 \in Overscans :
            (isFinite(o2) /\ o2.val >= call.args[5].val) =>
                LET wider == calculateVisibleRange(call.args[1], call.args[2],
                                                   call.args[3], call.args[4], o2)
                IN  /\ wider.start <= call.result.start
                    /\ wider.end >= call.result.end

C8_Witness ==
    /\ VisibleRangeDone /\ NonNegative(call.args[5])
    /\ \E o2 \in Overscans :
            /\ isFinite(o2) /\ o2.val > call.args[5].val
            /\ LET wider == calculateVisibleRange(call.args[1], call.args[2],
                                                  call.args[3], call.args[4], o2)
               IN  /\ wider.start < call.result.start
                   /\ wider.end > call.result.end

\* C9 as stated: for every index i >= 0 and every item height h > 0,
\* calculateItemPosition(i+1, h).top - calculateItemPosition(i, h).top = h,
\* calculateItemPosition(i, h).top = i*h and .height = h.
C9_PositionLinearAnyHeight ==
    (ItemPositionDone /\ NonNegative(call.args[1]) /\ Positive(call.args[2])) =>
        LET i == call.args[1].val
            h == call.args[2].val
            next == calculateItemPosition(Num(i + 1), call.args[2])
        IN  /\ next.top - call.result.top = h
            /\ call.result.top = i * h
            /\ call.result.height = h

\* C9 as amended: the same for every index i >= 0 and every item height h
\* with 1 <= h <= 1,000,000 (a height above the ceiling is replaced by it).
C9_PositionLinearUpToCeiling ==
    ( /\ ItemPositionDone /\ NonNegative(call.args[1])
      /\ Positive(call.args[2]) /\ call.args[2].val <= MAX_REASONABLE_VALUE ) =>
        LET i == call.args[1].val
            h == call.args[2].val
            next == calculateItemPosition(Num(i + 1), call.args[2])
        IN  /\ next.top - call.result.top = h
            /\ call.result.top = i * h
            /\ call.result.height = h

C9_Witness ==
    /\ ItemPositionDone
    /\ call.args = <<Num(1000001), Num(2)>>
    /\ call.result = [top |-> 2000002, height |-> 2]

\* C10 as stated: calculateTotalHeight(n, h) = n * h for every positive
\* finite n and h, and calculateTotalHeight(0, h) = 0 for every h.
C10_TotalHeightAnyPositive ==
    TotalHeightDone =>
        /\ (Positive(call.args[1]) /\ Positive(call.args[2])) =>
                call.result = call.args[1].val * call.args[2].val
        /\ call.args[1] = Num(0) => call.result = 0

\* C10 as amended: calculateTotalHeight(n, h) = n * h for 0 < n <= 1,000,000
\* and 1 <= h <= 1,000,000, and calculateTotalHeight(0, h) = 0 for every h.
C10_TotalHeightUpToCeiling ==
    TotalHeightDone =>
        /\ ( /\ Positive(call.args[1]) /\ call.args[1].val <= MAX_REASONABLE_VALUE
             /\ Positive(call.args[2]) /\ call.args[2].val <= MAX_REASONABLE_VALUE ) =>
                call.result = call.args[1].val * call.args[2].val
        /\ call.args[1] = Num(0) => call.result = 0

C10_Witness ==
    /\ TotalHeightDone
    /\ call.args = <<Num(1000), Num(50)>>
    /\ call.result = 50000

\* x <= bound * bound, computed without the product
WithinSquare(x, bound) ==
    \/ x \div bound < bound
    \/ x \div bound = bound /\ x % bound = 0

AboveCeiling(value) == isFinite(value) /\ value.val > MAX_REASONABLE_VALUE
\* the arguments args with the k-th replaced by the ceiling
AtCeiling(args, k) == [args EXCEPT ![k] = Num(MAX_REASONABLE_VALUE)]

VisibleRangeOf(args) ==
    calculateVisibleRange(args[1], args[2], args[3], args[4], args[5])
ItemPositionOf(args) == calculateItemPosition(args[1], args[2])
TotalHeightOf(args) == calculateTotalHeight(args[1], args[2])

\* the result is the result for the ceiling in each of the positions that
\* holds a value above the ceiling
SameAsAtCeiling(positions) ==
    \A k \in positions :
        AboveCeiling(call.args[k]) =>
            call.result = CASE call.op = "calculateVisibleRange" ->
                                    VisibleRangeOf(AtCeiling(call.args, k))
                            [] call.op = "calculateItemPosition" ->
                                    ItemPositionOf(AtCeiling(call.args, k))
                            [] call.op = "calculateTotalHeight" ->
                                    TotalHeightOf(AtCeiling(call.args, k))

\* C21: every numeric argument of the three operations (scrollOffset,
\* viewportHeight, itemCount, itemHeight, overscan; index, itemHeight;
\* itemCount, itemHeight) that exceeds the ceiling 1,000,000 is replaced by
\* the ceiling, so the result equals the result for the ceiling.
C21_CeilingOnEveryArgument ==
    /\ VisibleRangeDone => SameAsAtCeiling(1 .. 5)
    /\ ItemPositionDone => SameAsAtCeiling(1 .. 2)
    /\ TotalHeightDone => SameAsAtCeiling(1 .. 2)

\* C21 (amended): viewportHeight, itemCount, itemHeight and overscan of
\* calculateVisibleRange, itemHeight of calculateItemPosition, itemCount
\* and itemHeight of calculateTotalHeight are replaced by the ceiling when
\* they exceed it; scrollOffset and index have no ceiling, a finite
\* non-negative one is used as it is.
C21_CeilingOnAllButOffsetAndIndex ==
    /\ VisibleRangeDone =>
            /\ SameAsAtCeiling(2 .. 5)
            /\ (NonNegative(call.args[1]) /\ call.result # EmptyRange) =>
                    LET height == ItemPositionOf(<<Num(0), call.args[4]>>).height
                        overscan == sanitizeNumeric(call.args[5], DEFAULT_OVERSCAN,
                                                    <<MAX_REASONABLE_VALUE>>)
                    IN  call.result.start =
                            Max(0, (call.args[1].val \div height) - overscan)
    /\ ItemPositionDone =>
            /\ SameAsAtCeiling({2})
            /\ NonNegative(call.args[1]) =>
                    call.result.top = call.args[1].val * call.result.height
    /\ TotalHeightDone => SameAsAtCeiling(1 .. 2)

C21_Witness ==
    /\ VisibleRangeDone
    /\ call.args = <<Num(1000050), Num(600), Num(1000001), Num(2), Num(0)>>
    /\ call.result = [start |-> 500025, end |-> 500325]

InvalidItemHeight(value) == ~isFinite(value) \/ value.val <= 0

\* C22: a zero, negative, NaN or infinite itemHeight is replaced by the
\* default height 50 in all three operations: the result is the result
\* for itemHeight 50, and the effective height is at least 1.
C22_InvalidHeightIsDefault ==
    /\ VisibleRangeDone /\ InvalidItemHeight(call.args[4]) =>
            call.result = VisibleRangeOf([call.args EXCEPT ![4] =
                                            Num(DEFAULT_ITEM_HEIGHT)])
    /\ ItemPositionDone /\ InvalidItemHeight(call.args[2]) =>
            /\ call.result = ItemPositionOf([call.args EXCEPT ![2] =
                                                Num(DEFAULT_ITEM_HEIGHT)])
            /\ call.result.height >= 1
    /\ TotalHeightDone /\ InvalidItemHeight(call.args[2]) =>
            call.result = TotalHeightOf([call.args EXCEPT ![2] =
                                            Num(DEFAULT_ITEM_HEIGHT)])

NegativeOrNonFinite(value) == ~isFinite(value) \/ value.val < 0

C24_InvalidOverscanIsDefault ==
    VisibleRangeDone /\ NegativeOrNonFinite(call.args[5]) =>
        call.result = VisibleRangeOf([call.args EXCEPT ![5] =
                                        Num(DEFAULT_OVERSCAN)])

C24_Witness ==
    /\ VisibleRangeDone
    /\ call.args = <<Num(500), Num(600), Num(1000), Num(50), NaN>>
    /\ call.result = [start |-> 7, end |-> 25]

\* C29: for valid inputs (scrollOffset >= 0, viewportHeight >= 0,
\* itemHeight >= 1, overscan >= 0, any itemCount) the range holds at most
\* floor(viewportHeight / itemHeight) + 2 + 2 * overscan indices.
C29_RangeSizeBound ==
    (/\ VisibleRangeDone
     /\ NonNegative(call.args[1]) /\ NonNegative(call.args[2])
     /\ Positive(call.args[4]) /\ NonNegative(call.args[5])) =>
        call.result.end - call.result.start + 1 <=
            (call.args[2].val \div call.args[4].val) + 2 + 2 * call.args[5].val

\* the bound is met: rows 0, 1 and 2 show in a viewport of one row and a half
C29_Witness ==
    /\ VisibleRangeDone
    /\ call.args = <<Num(49), Num(75), Num(1000), Num(50), Num(0)>>
    /\ call.result = [start |-> 0, end |-> 2]

\* the rows next to either end of the viewport, MaxRow of them to each side
MaxRow == 20
RowsNear(scrollTop, containerHeight, itemHeight) ==
    LET first == scrollTop \div itemHeight
        last == (scrollTop + containerHeight) \div itemHeight
    IN  {i \in ((first - MaxRow) .. (first + MaxRow))
                    \cup ((last - MaxRow) .. (last + MaxRow)) : i >= 0}
\* row i, which is [i * h, (i + 1) * h), meets the viewport
Intersects(i, scrollTop, containerHeight, itemHeight) ==
    /\ i * itemHeight < scrollTop + containerHeight
    /\ (i + 1) * itemHeight > scrollTop
WithinCeiling(value) ==
    isFinite(value) /\ value.val >= 0 /\ value.val <= MAX_REASONABLE_VALUE

\* C30: for valid inputs within the ceiling, every index i of the list whose
\* row [i * h, (i + 1) * h) meets the viewport [scrollOffset, scrollOffset +
\* viewportHeight) is in the range, for every overscan >= 0, 0 included.
C30_ViewportCovered ==
    (/\ VisibleRangeDone
     /\ \A k \in 1 .. 5 : WithinCeiling(call.args[k])
     /\ call.args[4].val >= 1) =>
        \A i \in RowsNear(call.args[1].val, call.args[2].val, call.args[4].val) :
            (/\ i <= call.args[3].val - 1
             /\ Intersects(i, call.args[1].val, call.args[2].val,
                           call.args[4].val)) =>
                call.result.start <= i /\ i <= call.result.end

\* without overscan, rows 0 and 12 are partly in the viewport
C30_Witness ==
    /\ VisibleRangeDone
    /\ call.args = <<Num(49), Num(600), Num(1000), Num(50), Num(0)>>
    /\ call.result = [start |-> 0, end |-> 12]
    /\ Intersects(0, 49, 600, 50) /\ Intersects(12, 49, 600, 50)
    /\ ~Intersects(13, 49, 600, 50)

----------------------------------------------------------------------------
(* Properties of the monitor, checked under Spec *)

\* C2: once stopMonitoring has returned, the observer of the session it
\* ended is not invoked again: its number of invocations stays what it was
\* at that return, over any later frames, until a new startMonitoring
\* registers it again (stopMonitoring called by the observer included).
C2_NoInvocationAfterStop ==
    \A o \in Observers : countAtStop[o] # -1 => calls[o] = countAtStop[o]

\* a frame callback ran after the stop of a session that had delivered
C2_Witness ==
    /\ ~isMonitoring
    /\ lastOp.name = "trackFrame"
    /\ \E o \in Observers : countAtStop[o] >= 1 /\ calls[o] = countAtStop[o]

\* C3: in every reachable state at most one sampling tick is scheduled
\* with the frame scheduler (no two concurrent tick loops), whatever
\* startMonitoring / stopMonitoring calls and ticks came before, calls by
\* the observer during delivery included.
C3_AtMostOneTickScheduled == Len(frameCallbacks) + Len(running) <= 1

\* C6: startMonitoring called while Monitoring changes no field of the
\* monitor (observer, container, timestamp window, metrics, platform
\* observer, rafId) and not the scheduled tick, emits the warning, and the
\* state stays Monitoring; its arguments are ignored.
C6_StartWhileMonitoringIsNoOp ==
    [][ (isMonitoring /\ lastOp'.name = "startMonitoring") =>
            /\ UNCHANGED <<metrics, callback, rafId, observer, frameTimestamps,
                           lastFrameTime, containerElement, isMonitoring>>
            /\ UNCHANGED <<frameCallbacks, running>>
            /\ consoleWarn' = ALREADY_MONITORING
            /\ isMonitoring' ]_vars

C6_Witness ==
    /\ lastOp.name = "startMonitoring"
    /\ consoleWarn = ALREADY_MONITORING
    /\ isMonitoring
    /\ lastOp.callback # callback
    /\ lastOp.element # containerElement
    /\ metrics.fps > 0

\* C12: whenever the monitor is Idle (never started, or stopMonitoring has
\* returned) no sampling tick remains scheduled with the frame scheduler;
\* stopMonitoring always cancels the pending tick, also when the observer
\* calls it inside a sampling pass.
C12_NoTickScheduledWhileIdle ==
    ~isMonitoring => (frameCallbacks = <<>> /\ running = <<>>)

\* C13: in every Idle state the observer is null, the container is null,
\* the timestamp window is empty and no platform PerformanceObserver is
\* attached; in every Monitoring state an observer is registered; the state
\* goes from Idle to Monitoring only by startMonitoring and from Monitoring
\* to Idle only by stopMonitoring.
C13_StateFields ==
    /\ ~isMonitoring => /\ callback = null
                        /\ containerElement = null
                        /\ frameTimestamps = <<>>
                        /\ observer = null
    /\ isMonitoring => callback \in Observers

C13_StateMachine ==
    /\ []C13_StateFields
    /\ [][ /\ (~isMonitoring /\ isMonitoring') => lastOp'.name = "startMonitoring"
           /\ (isMonitoring /\ ~isMonitoring') => lastOp'.name = "stopMonitoring" ]_vars

\* a session that has sampled was stopped
C13_Witness ==
    /\ ~isMonitoring
    /\ lastOp.name = "stopMonitoring"
    /\ metrics.fps > 1
    /\ callback = null /\ frameTimestamps = <<>>

\* C14: stopMonitoring called while Idle changes no field of the monitor
\* and nothing scheduled, and yields no error; so stop(); stop() leaves the
\* state stop() leaves, and sessions can be started and stopped again.
C14_StopWhileIdleIsNoOp ==
    [][ (~isMonitoring /\ lastOp'.name = "stopMonitoring") =>
            /\ UNCHANGED <<metrics, callback, rafId, observer, frameTimestamps,
                           lastFrameTime, containerElement, isMonitoring>>
            /\ UNCHANGED <<frameCallbacks, running>>
            /\ consoleWarn' = "" ]_vars

\* stopMonitoring returned in an Idle state that an earlier session left
\* with a frame handle
C14_Witness ==
    /\ ~isMonitoring
    /\ lastOp.name = "stopMonitoring"
    /\ rafId # noHandle

\* trackFrame has just sampled (and, with an observer, delivered)
AfterSample == lastOp.name = "trackFrame" /\ isMonitoring

\* C17: after a sampling pass at timestamp T the stored and the delivered
\* fps is the number of frames of the current session whose timestamp is
\* not older than 1000 ms relative to T (T itself counted, exactly the
\* older ones discarded); frames of an earlier session are never counted.
C17_FpsCountsFramesOfLastSecond ==
    AfterSample =>
        /\ metrics.fps = Cardinality({t \in sessionFrames : now - t <= FPS_WINDOW})
        /\ callback # null => held.value.fps = metrics.fps

\* C19: in every snapshot a sampling pass produces, domNodes is 0 when the
\* session was started without a container, and otherwise the number of
\* elements the container contains at that tick plus 1 for the container.
C19_DomNodesCountsContainer ==
    AfterSample =>
        /\ metrics.domNodes = IF containerElement = null THEN 0 ELSE descendants + 1
        /\ callback # null => held.value.domNodes = metrics.domNodes

\* C19 (amended): domNodes is 0 when the session was started without a
\* container or when counting the container's elements fails at that tick,
\* and otherwise the number of elements the container contains at that tick
\* plus 1 for the container.
C19_DomNodesCountsContainerOrFails ==
    AfterSample =>
        /\ metrics.domNodes = IF containerElement = null \/ ~lastOp.counted
                              THEN 0 ELSE descendants + 1
        /\ callback # null => held.value.domNodes = metrics.domNodes

\* the second pass of a session counted the container after an element
\* had been added below it
C19_Witness ==
    /\ AfterSample
    /\ containerElement = "container"
    /\ lastOp.counted
    /\ descendants = 1
    /\ metrics.domNodes = 2
    /\ metrics.fps = 2
    /\ held.value.domNodes = 2

----------------------------------------------------------------------------
(* Properties of snapshots and render marks, checked under RenderSpec *)

\* C15: the result of getMetrics and the object delivered to the observer
\* are fresh records equal to the stored metrics; a holder writing into its
\* snapshot later leaves the stored metrics, and so every later snapshot,
\* unchanged.
C15_SnapshotsAreCopies ==
    [][ /\ lastOp'.name = "getMetrics" =>
                /\ held' = [value |-> metrics, shared |-> FALSE]
                /\ metrics' = metrics
        /\ (lastOp'.name = "trackFrame" /\ pc' = "callback") =>
                held' = [value |-> metrics', shared |-> FALSE]
        /\ lastOp'.name = "mutateSnapshot" => metrics' = metrics ]_vars

\* the observer wrote into the snapshot delivered to it
C15_Witness ==
    /\ pc = "callback"
    /\ lastOp.name = "mutateSnapshot"
    /\ held.value = Tampered
    /\ metrics.fps > 0 /\ metrics.renderTime > 0

\* startMonitoring has never been called: no session runs and none was ended
NeverStarted == ~isMonitoring /\ \A o \in Observers : countAtStop[o] = -1

\* C16: getMetrics is available in any state, and on a monitor on which
\* startMonitoring has never been called it returns the initial record
\* {fps: 0, memoryUsage: 0, domNodes: 0, renderTime: 0} after any sequence
\* of stopMonitoring, markRenderStart, markRenderEnd and getMetrics calls.
C16_NeverStartedGivesInitial ==
    (NeverStarted /\ lastOp.name = "getMetrics") => held.value = INITIAL_METRICS

C16_NeverStartedZeroSamples ==
    (NeverStarted /\ lastOp.name = "getMetrics") =>
        /\ held.value = metrics
        /\ held.value.fps = 0
        /\ held.value.memoryUsage = 0
        /\ held.value.domNodes = 0

\* C16 (amended): on a monitor on which startMonitoring has never been
\* called getMetrics returns the stored record with fps, memoryUsage and
\* domNodes 0; its renderTime is 0 until a markRenderEnd completes a pending
\* markRenderStart of the same label, and from then on the duration the
\* last such pair measured.
C16_NeverStartedGivesMeasuredRenderTime ==
    /\ []C16_NeverStartedZeroSamples
    /\ [][ NeverStarted' =>
            /\ metrics'.renderTime # metrics.renderTime =>
                    lastOp'.name = "markRenderEnd"
            /\ (lastOp'.name = "markRenderEnd" /\ lastOp'.measured # noEntry) =>
                    metrics'.renderTime = lastOp'.measured
            /\ (lastOp'.name = "markRenderEnd" /\ lastOp'.measured = noEntry) =>
                    metrics'.renderTime = metrics.renderTime ]_vars

\* a never-started monitor was stopped, completed a pair of marks and then
\* returned the measured duration
C16_Witness ==
    /\ NeverStarted
    /\ lastOp.name = "getMetrics"
    /\ held.value = [INITIAL_METRICS EXCEPT !.renderTime = 7]
    /\ now = 0

\* C18: markRenderEnd(label) without a pending markRenderStart of the same
\* label (never started, another label started, already ended), and either
\* call when the timing facility fails, raise nothing and leave renderTime
\* as it was; both calls work in Idle and in Monitoring and never change
\* fps, memoryUsage, domNodes or the monitoring state.
C18_MarksDegradeSilently ==
    [][ /\ lastOp'.name \in {"markRenderStart", "markRenderEnd"} =>
                /\ metrics'.fps = metrics.fps
                /\ metrics'.memoryUsage = metrics.memoryUsage
                /\ metrics'.domNodes = metrics.domNodes
                /\ isMonitoring' = isMonitoring
                /\ consoleWarn' = ""
        /\ lastOp'.name = "markRenderStart" =>
                metrics'.renderTime = metrics.renderTime
        /\ ( /\ lastOp'.name = "markRenderEnd"
             /\ (~lastOp'.timing \/ lastOp'.label \notin marks) ) =>
                metrics'.renderTime = metrics.renderTime ]_vars

\* during a session markRenderEnd('render') returned while only 'test' was
\* started, and renderTime kept the duration measured before
C18_Witness ==
    /\ isMonitoring
    /\ lastOp = MarkOp("markRenderEnd", "render", TRUE, noEntry)
    /\ marks = {"test"}
    /\ metrics.renderTime = 7

\* C20: a sampling pass changes only fps, memoryUsage and domNodes of the
\* stored metrics and leaves renderTime as it was; renderTime changes only
\* by a markRenderEnd that completes a markRenderStart or by a duration the
\* platform's PerformanceObserver reports.
C20_RenderTimeOutsideSampling ==
    [][ /\ lastOp'.name = "trackFrame" => metrics'.renderTime = metrics.renderTime
        /\ metrics'.renderTime # metrics.renderTime =>
                \/ /\ lastOp'.name = "markRenderEnd"
                   /\ lastOp'.label \in marks
                   /\ lastOp'.measured = metrics'.renderTime
                \/ /\ lastOp'.name = "performanceEntries"
                   /\ pendingEntry = metrics'.renderTime ]_vars

\* a pass sampled and delivered while renderTime held a measured duration
C20_Witness ==
    /\ AfterSample
    /\ metrics.renderTime = 7
    /\ metrics.fps = 2
    /\ held.value = metrics

\* a sampling pass has run since the monitor was constructed
EverSampled == \E o \in Observers : calls[o] > 0
\* a session that follows a sampled one has started and has not sampled yet
Restarted == isMonitoring /\ sessionFrames = {} /\ EverSampled

\* C25: after at least one sampling pass, stopMonitoring and then
\* startMonitoring, the reported fps (getMetrics().fps) is 0 until the new
\* session has sampled frames.
C25_FpsZeroAfterRestart ==
    Restarted => getMetrics.value.fps = 0

\* C25 (amended): once a sampling pass has run the reported fps is at
\* least 1 in every state, after stop and restart too: stopMonitoring and
\* startMonitoring leave the stored snapshot as it is.
C25_FpsKeptAcrossRestart ==
    /\ [](EverSampled => getMetrics.value.fps >= 1)
    /\ [][ lastOp'.name \in {"startMonitoring", "stopMonitoring"} =>
                metrics' = metrics ]_vars

\* getMetrics right after a restart reports the 2 that the stopped session
\* stored
C25_Witness ==
    /\ Restarted
    /\ lastOp.name = "getMetrics"
    /\ frameTimestamps = <<>>
    /\ held.value.fps = 2

\* C26: a missing or failing optional facility never aborts the sampling
\* loop: when memory measurement gives nothing or node counting fails, the
\* pass still stores a snapshot with the affected field 0, delivers it and
\* the next tick is scheduled; when the timing observer cannot be
\* initialized, startMonitoring still enters Monitoring and schedules the
\* first tick.
C26_FacilityFailureKeepsSampling ==
    /\ [][ (isMonitoring /\ lastOp'.name = "trackFrame") =>
                /\ lastOp'.reading = noMemory => metrics'.memoryUsage = 0
                /\ ~lastOp'.counted => metrics'.domNodes = 0
                /\ metrics'.fps = Len(frameTimestamps') /\ metrics'.fps >= 1
                /\ callback # null =>
                        /\ held' = deliveredMetrics(metrics')
                        /\ calls'[callback] = calls[callback] + 1
                        /\ pc' = "callback"
                /\ callback = null => rafId' # rafId ]_vars
    /\ [][ (pc = "callback" /\ pc' = "idle") =>
                /\ rafId' \notin Handles
                /\ frameCallbacks' = Append(frameCallbacks, rafId') ]_vars
    /\ [][ (~isMonitoring /\ lastOp'.name = "startMonitoring") =>
                /\ isMonitoring'
                /\ frameCallbacks' = Append(frameCallbacks, rafId')
                /\ ~hasPerformanceObserver =>
                        observer' = null /\ consoleWarn' = OBSERVER_UNAVAILABLE
          ]_vars

\* the second pass of a session without timing observer, in which neither
\* memory nor the nodes of the container could be measured
C26_Witness ==
    /\ AfterSample
    /\ ~hasPerformanceObserver /\ observer = null
    /\ containerElement # null
    /\ lastOp.reading = noMemory /\ ~lastOp.counted
    /\ metrics = [fps |-> 2, memoryUsage |-> 0, domNodes |-> 0, renderTime |-> 0]
    /\ held.value = metrics
    /\ pc = "callback"

\* a tick of the sampling loop is requested or running
TickScheduled == frameCallbacks # <<>> \/ running # <<>> \/ pc = "callback"

----------------------------------------------------------------------------
(* Properties of the scroll batching, checked under ScrollSpec *)

\* C28: whatever the order of scroll events and frames, at most one scroll
\* update is pending (onScroll cancels the one requested before), an update
\* that was cancelled is never applied, the offset a frame applies is that
\* of the last scroll event, and unmounting cancels the pending update, so
\* that no offset is applied afterwards.
C28_ScrollUpdatesCoalesced ==
    /\ [](/\ Len(scrollFrames) <= 1
          /\ \A i \in 1 .. Len(scrollFrames) : scrollFrames[i].id = rafIdRef
          /\ ~mounted => scrollFrames = <<>> /\ rafIdRef = noHandle)
    /\ [][ hookOp'.name = "setScrollTop" =>
                /\ hookOp'.id \notin cancelledFrames
                /\ scrollTopState' = newestScrollTop
                /\ mounted ]_vars
    /\ [][ ~mounted' => scrollTopState' = scrollTopState ]_vars

\* the second of two updates was applied, the first and the third were
\* cancelled, the third by unmounting
C28_Witness ==
    /\ ~mounted
    /\ hookOp = HookOp("unmount", 3)
    /\ cancelledFrames = {1, 3}
    /\ scrollTopState = 100
    /\ newestScrollTop = 250
    /\ scrollFrames = <<>>

====
